---- MODULE Spec2Model ----
(***************************************************************************)
(* Model of src/main.rs: the Discord event handler Handler::message, which *)
(* extracts a YouTube video id from a message, asks the DeArrow branding   *)
(* API for crowd-sourced titles and thumbnails, replies with an embed and  *)
(* optionally suppresses the embed Discord rendered for the original       *)
(* message.                                                                *)
(*                                                                         *)
(* Every `.await` of the handler is a suspension point: the call is issued *)
(* in one step (it is appended to calls[m]) and completes in a later step  *)
(* with a result chosen by the environment (appended to results[m]).  The  *)
(* synchronous code between two suspension points runs inside the step     *)
(* that completes the earlier one.                                         *)
(***************************************************************************)
EXTENDS Integers, Sequences, FiniteSets, TLC

(***************************************************************************)
(* Bounds of the model.                                                    *)
(***************************************************************************)
NumMsgs == 2        \* message ids known to the gateway
MaxCands == 2       \* longest titles / thumbnails vector of a response
MaxUpdates == 1     \* MessageUpdate events the gateway delivers per message id
TickMs == 2500      \* granularity of the clock of tokio::time::timeout

(***************************************************************************)
(* Program constants.                                                      *)
(***************************************************************************)
IdLen == 11         \* {11} in the regex
TimeoutMs == 5000   \* Duration::from_millis(5000)

\* Option<T>: None is the empty sequence, Some(x) the one-element sequence
None == <<>>
Some(x) == <<x>>

Msgs == 1..NumMsgs

Min(S) == CHOOSE x \in S : \A y \in S : x <= y
Max(S) == CHOOSE x \in S : \A y \in S : x >= y

(***************************************************************************)
(* Texts are sequences of one-character strings.                           *)
(***************************************************************************)
Lower == {"a","b","c","d","e","f","g","h","i","j","k","l","m",
          "n","o","p","q","r","s","t","u","v","w","x","y","z"}
Upper == {"A","B","C","D","E","F","G","H","I","J","K","L","M",
          "N","O","P","Q","R","S","T","U","V","W","X","Y","Z"}
Digit == {"0","1","2","3","4","5","6","7","8","9"}

\* [a-zA-Z0-9_-]
IdChar == Lower \cup Upper \cup Digit \cup {"_", "-"}

\* \s
Space == {" ", "\n", "\t", "\r"}

\* \S
NonSpace(c) == c \notin Space

\* [^\/\n\s]
Segment(c) == c # "/" /\ c \notin Space

\* the literal lit occurs in s at position i
IsAt(s, i, lit) ==
    /\ i >= 1
    /\ i + Len(lit) - 1 <= Len(s)
    /\ \A k \in 1..Len(lit) : s[i + k - 1] = lit[k]

\* ([a-zA-Z0-9_-]{11}) matches s at position i
IdAt(s, i) ==
    /\ i >= 1
    /\ i + IdLen - 1 <= Len(s)
    /\ \A k \in 0..(IdLen - 1) : s[i + k] \in IdChar

\* youtube(?:-nocookie)?\.com\/ at position i: the position after it, or 0
HostEnd(s, i) ==
    IF ~IsAt(s, i, <<"y","o","u","t","u","b","e">>) THEN 0
    ELSE IF IsAt(s, i + 7, <<"-","n","o","c","o","o","k","i","e",".","c","o","m","/">>)
         THEN i + 21
    ELSE IF IsAt(s, i + 7, <<".","c","o","m","/">>) THEN i + 12
    ELSE 0

\* [^\/\n\s]+\/\S+\/ at position p, followed by the id: the position of the
\* id, or 0.  Both repetitions are greedy: the first one runs to the next
\* "/", the second one gives back as little as possible.
PathForm(s, p) ==
    LET Q == {q \in (p + 1)..Len(s) : s[q] = "/" /\ (\A k \in p..(q - 1) : Segment(s[k]))}
        J == {j \in (p + 3)..Len(s) :
                 /\ Q # {}
                 /\ j >= Min(Q) + 2
                 /\ s[j] = "/"
                 /\ \A k \in (Min(Q) + 1)..(j - 1) : NonSpace(s[k])
                 /\ IdAt(s, j + 1)}
    IN  IF J = {} THEN 0 ELSE Max(J) + 1

\* (?:v|e(?:mbed)?)\/ at position p, followed by the id
EmbedForm(s, p) ==
    IF IsAt(s, p, <<"v","/">>) /\ IdAt(s, p + 2) THEN p + 2
    ELSE IF IsAt(s, p, <<"e","m","b","e","d","/">>) /\ IdAt(s, p + 6) THEN p + 6
    ELSE IF IsAt(s, p, <<"e","/">>) /\ IdAt(s, p + 2) THEN p + 2
    ELSE 0

\* \S*?[?&]v= at position p, followed by the id.  The repetition is lazy:
\* the first position that completes the match is taken.
QueryForm(s, p) ==
    LET N == {n \in p..Len(s) :
                 /\ \A k \in p..(n - 1) : NonSpace(s[k])
                 /\ s[n] \in {"?", "&"}
                 /\ IsAt(s, n + 1, <<"v","=">>)
                 /\ IdAt(s, n + 3)}
    IN  IF N = {} THEN 0 ELSE Min(N) + 3

\* youtu\.be\/ at position i, followed by the id
ShortForm(s, i) ==
    IF IsAt(s, i, <<"y","o","u","t","u",".","b","e","/">>) /\ IdAt(s, i + 9)
    THEN i + 9 ELSE 0

\* The whole pattern anchored at position i: the position of capture group
\* 1, or 0.  Alternatives are tried in the order they are written.
MatchAt(s, i) ==
    LET p == HostEnd(s, i)
    IN  IF p # 0 /\ PathForm(s, p) # 0 THEN PathForm(s, p)
        ELSE IF p # 0 /\ EmbedForm(s, p) # 0 THEN EmbedForm(s, p)
        ELSE IF p # 0 /\ QueryForm(s, p) # 0 THEN QueryForm(s, p)
        ELSE ShortForm(s, i)

\* regex.captures(&link) followed by cap.get(1): the leftmost match wins
captures(s) ==
    LET I == {i \in 1..Len(s) : MatchAt(s, i) # 0}
    IN  IF I = {} THEN None
        ELSE Some(SubSeq(s, MatchAt(s, Min(I)), MatchAt(s, Min(I)) + IdLen - 1))

(***************************************************************************)
(* Sample message texts, as msg.content_safe(ctx.cache) returns them.      *)
(***************************************************************************)
IdRick == <<"d","Q","w","4","w","9","W","g","X","c","Q">>
IdOther == <<"a","_","c","-","e","F","G","1","2","3","4">>

TextShort ==
    <<"s","e","e"," ","h","t","t","p","s",":","/","/",
      "y","o","u","t","u",".","b","e","/">> \o IdRick \o <<" ","o","k">>

TextWatch ==
    <<"y","o","u","t","u","b","e",".","c","o","m","/",
      "w","a","t","c","h","?","v","=">> \o IdOther

TextPlain == <<"h","e","l","l","o"," ","y","o","u","t","u","b","e">>

Links == {TextShort, TextWatch, TextPlain}

(***************************************************************************)
(* Message texts built from the parts of a link: what comes before it, the *)
(* host, the form of the path or query, the id and what follows.           *)
(***************************************************************************)
IdTooShort == <<"a","b","c","d","e","f","g","h","i","j">>

Prefixes == {<<>>, <<"s","e","e"," ">>,
             <<"h","t","t","p","s",":","/","/","w","w","w",".">>}

Hosts ==
    {<<"y","o","u","t","u","b","e",".","c","o","m","/">>,
     <<"y","o","u","t","u","b","e","-","n","o","c","o","o","k","i","e",".","c","o","m","/">>,
     <<"y","o","u","t","u",".","b","e","/">>,
     <<"e","x","a","m","p","l","e",".","c","o","m","/">>}

Forms ==
    {<<>>, <<"v","/">>, <<"e","/">>, <<"e","m","b","e","d","/">>,
     <<"w","a","t","c","h","?","v","=">>,
     <<"w","a","t","c","h","?","a","=","1","&","v","=">>,
     <<"u","s","e","r","/","a","b","/">>}

Ids == {IdRick, IdOther, IdTooShort}

Suffixes ==
    {<<>>, <<" ","o","k">>, <<"/","x","/">> \o IdOther,
     <<" ","y","o","u","t","u",".","b","e","/">> \o IdOther}

Texts ==
    Links \cup {a \o h \o f \o i \o z :
                   a \in Prefixes, h \in Hosts, f \in Forms, i \in Ids,
                   z \in Suffixes}

(***************************************************************************)
(* The branding API's response.                                            *)
(***************************************************************************)
ThumbnailModes == {"Disabled", "Enabled", "OnlyLocked"}

\* votes: one value below, at and above the threshold the trust gate tests
Votes == {-1, 0, 1}

\* timestamp: Option<f32>
Timestamps == {None, Some(12)}

\* BrandingTitle; the title text of the i-th candidate is named by i
BrandingTitle(i) == [title : {i}, votes : Votes, locked : BOOLEAN]

\* BrandingThumbnail
BrandingThumbnail == [timestamp : Timestamps, votes : Votes, locked : BOOLEAN]

\* The first candidate of a vector ranges over every combination; the
\* candidates after it are either plainly trusted (locked, votes above 0) or
\* plainly untrusted (unlocked, votes below 0).
LaterTitle(t) == (t.locked /\ t.votes = 1) \/ (~t.locked /\ t.votes = -1)
LaterThumbnail(t) == LaterTitle(t) /\ t.timestamp = None

TitleVecs ==
    UNION {{t \in [1..n -> UNION {BrandingTitle(i) : i \in 1..n}] :
               \A i \in 1..n : t[i].title = i /\ (i > 1 => LaterTitle(t[i]))}
           : n \in 0..MaxCands}

ThumbnailVecs ==
    UNION {{t \in [1..n -> BrandingThumbnail] :
               \A i \in 2..n : LaterThumbnail(t[i])} : n \in 0..MaxCands}

\* BrandingResponse
BrandingResponse == [titles : TitleVecs, thumbnails : ThumbnailVecs]

\* first() reading the other end of the vector
firstFromBack(v) == IF v = <<>> THEN None ELSE Some(v[Len(v)])

\* Vec::first()
first(v) == IF v = <<>> THEN None ELSE Some(v[1])

(***************************************************************************)
(* ThumbnailMode as text: Display and FromStr, which clap uses to print    *)
(* the default of --thumbnail-mode and to parse the argument.              *)
(***************************************************************************)
\* Result<T, E>
Ok(x) == <<"Ok", x>>
Err(e) == <<"Err", e>>

AsciiUpper ==
    <<"A","B","C","D","E","F","G","H","I","J","K","L","M",
      "N","O","P","Q","R","S","T","U","V","W","X","Y","Z">>
AsciiLower ==
    <<"a","b","c","d","e","f","g","h","i","j","k","l","m",
      "n","o","p","q","r","s","t","u","v","w","x","y","z">>

\* u8::to_ascii_lowercase: only A-Z change
AsciiLowerOf(c) ==
    IF \E i \in 1..Len(AsciiUpper) : AsciiUpper[i] = c
    THEN AsciiLower[CHOOSE i \in 1..Len(AsciiUpper) : AsciiUpper[i] = c]
    ELSE c

\* str::to_ascii_lowercase
to_ascii_lowercase(s) == [k \in 1..Len(s) |-> AsciiLowerOf(s[k])]

\* format!("{:?}", self): the derived Debug prints the name of the variant
to_string(mode) ==
    CASE mode = "Disabled" -> <<"D","i","s","a","b","l","e","d">>
      [] mode = "Enabled" -> <<"E","n","a","b","l","e","d">>
      [] mode = "OnlyLocked" -> <<"O","n","l","y","L","o","c","k","e","d">>

\* from_str matching the text as it is, without to_ascii_lowercase
from_strExact(s) ==
    CASE s = <<"d","i","s","a","b","l","e","d">> -> Ok("Disabled")
      [] s = <<"e","n","a","b","l","e","d">> -> Ok("Enabled")
      [] s = <<"o","n","l","y","l","o","c","k","e","d">> -> Ok("OnlyLocked")
      [] OTHER -> Err("can't parse thumbnail mode")

\* match s.to_ascii_lowercase().as_str() { .. }
from_str(s) ==
    LET l == to_ascii_lowercase(s)
    IN  CASE l = <<"d","i","s","a","b","l","e","d">> -> Ok("Disabled")
          [] l = <<"e","n","a","b","l","e","d">> -> Ok("Enabled")
          [] l = <<"o","n","l","y","l","o","c","k","e","d">> -> Ok("OnlyLocked")
          [] OTHER -> Err("can't parse thumbnail mode")

\* every spelling of the text s in upper and lower case letters
CaseVariants(s) ==
    {[k \in 1..Len(s) |->
         IF k \in U /\ \E i \in 1..Len(AsciiLower) : AsciiLower[i] = s[k]
         THEN AsciiUpper[CHOOSE i \in 1..Len(AsciiLower) : AsciiLower[i] = s[k]]
         ELSE s[k]] : U \in SUBSET (1..Len(s))}

\* texts that are not the name of a mode
OtherTexts ==
    {<<>>, <<"o","n">>, <<"l","o","c","k","e","d">>,
     <<"o","n","l","y","-","l","o","c","k","e","d">>,
     <<"o","n","l","y","_","l","o","c","k","e","d">>,
     <<"O","n","l","y"," ","L","o","c","k","e","d">>,
     <<"e","n","a","b","l","e","d"," ">>, <<" ","E","n","a","b","l","e","d">>,
     <<"D","i","s","a","b","l","e">>}

\* the texts given for --thumbnail-mode or THUMBNAIL_MODE
ArgStrings ==
    UNION {CaseVariants(to_ascii_lowercase(to_string(mode))) :
              mode \in ThumbnailModes}
        \cup OtherTexts

(***************************************************************************)
(* State.                                                                  *)
(***************************************************************************)
VARIABLES
    arg,             \* Option of the text given for Args.thumbnail_mode
    parsed,          \* Option of the Result of from_str on that text
    thumbnail_mode,  \* Handler.thumbnail_mode
    remove_embed,    \* Handler.remove_embed
    pc,              \* per message: the suspension point its handler is at
    link,            \* per message: msg.content_safe(ctx.cache)
    embeds,          \* per message: msg.embeds.len() when it was received
    id,              \* per message: Option of the captured video id
    branding,        \* per message: Option of the BrandingResponse
    thumb,           \* per message: Option of (bytes, votes, locked)
    message,         \* per message: Option of the CreateMessage built
    calls,           \* per message: the external operations issued, in order
    results,         \* per message: how each completed operation ended
    updates,         \* per message id: MessageUpdate events delivered so far
    collector,       \* per message: state of serenity::collector::collect
    elapsed,         \* per message: ms the timeout has been running
    channel,         \* the replies Discord accepted
    suppressed       \* the messages whose embeds are suppressed

vars == <<arg, parsed, thumbnail_mode, remove_embed, pc, link, embeds, id,
          branding, thumb, message, calls, results, updates, collector,
          elapsed, channel, suppressed>>

config == <<arg, parsed, thumbnail_mode, remove_embed>>
received == <<link, embeds>>

Call(op, vid, time) == [op |-> op, vid |-> vid, time |-> time]

\* the names of the operations message m has issued, in order
Ops(m) == [i \in 1..Len(calls[m]) |-> calls[m][i].op]

Count(m, op) == Cardinality({i \in 1..Len(calls[m]) : calls[m][i].op = op})

(***************************************************************************)
(* Decisions of Handler::message.                                          *)
(***************************************************************************)
\* the title gate with the negation of `locked` lost
TitleUntrustedLocked(title) == title.locked /\ title.votes < 0

\* the title gate testing the votes alone
TitleUntrustedVotes(title) == title.votes < 0

\* !title.locked && title.votes < 0
TitleUntrusted(title) == ~title.locked /\ title.votes < 0

\* the thumbnail branch entered under every mode
ThumbConsideredAlways == TRUE

\* self.thumbnail_mode != ThumbnailMode::Disabled
ThumbConsidered == thumbnail_mode # "Disabled"

\* the thumbnail gate with the negation of `locked` lost
ThumbUntrustedLocked(thumbnail) == thumbnail.locked /\ thumbnail.votes < 0

\* !thumbnail.locked && thumbnail.votes < 0
ThumbUntrusted(thumbnail) == ~thumbnail.locked /\ thumbnail.votes < 0

\* the lock-only test with the negation of `locked` lost
LockOnlyRejectedLocked(thumbnail) ==
    thumbnail.locked /\ thumbnail_mode = "OnlyLocked"

\* the lock-only test left out
LockOnlyRejectedNever(thumbnail) == FALSE

\* !thumbnail.locked && self.thumbnail_mode == ThumbnailMode::OnlyLocked
LockOnlyRejected(thumbnail) == ~thumbnail.locked /\ thumbnail_mode = "OnlyLocked"

\* the branches of `let thumb = ...` that end in get_thumbnail(..).await
ThumbFetched(r) ==
    /\ ThumbConsidered
    /\ first(r.thumbnails) # None
    /\ ~ThumbUntrusted(first(r.thumbnails)[1])
    /\ ~LockOnlyRejected(first(r.thumbnails)[1])

\* if x { " " } else { " not " }
IsLocked(locked) == IF locked THEN " " ELSE " not "

\* the match with the arms of Disabled and Enabled exchanged
ReasonSwapped(mode) ==
    CASE mode = "Disabled" -> "not found"
      [] mode = "Enabled" -> "disabled by dev"
      [] mode = "OnlyLocked" -> "disabled by dev (lock-only)"

\* match self.thumbnail_mode { .. } of the title-only description
Reason(mode) ==
    CASE mode = "Disabled" -> "disabled by dev"
      [] mode = "Enabled" -> "not found"
      [] mode = "OnlyLocked" -> "disabled by dev (lock-only)"

\* the reply whose reason tells a failed fetch from a thumbnail not wanted
CreateMessageByCause(m, title, t) ==
    IF t # None
    THEN [file |-> Some([name |-> "thumb.webp", bytes |-> t[1].bytes]),
          attachment |-> Some("thumb.webp"),
          title |-> title.title,
          description |-> <<"Title: ", title.votes, " votes, is",
                            IsLocked(title.locked), "locked; Thumbnail: ",
                            t[1].votes, " votes, is", IsLocked(t[1].locked),
                            "locked">>,
          footer |-> "De-Clickbait provided by DeArrow API.",
          reference |-> m]
    ELSE [file |-> None,
          attachment |-> None,
          title |-> title.title,
          description |-> <<"Title: ", title.votes, " votes, is",
                            IsLocked(title.locked), "locked; Thumbnail: ",
                            IF Count(m, "get_thumbnail") > 0
                            THEN "not found" ELSE Reason(thumbnail_mode)>>,
          footer |-> "De-Clickbait provided by DeArrow API.",
          reference |-> m]

\* the CreateMessage built from the title and the Option thumb, for message m
CreateMessage(m, title, t) ==
    IF t # None
    THEN [file |-> Some([name |-> "thumb.webp", bytes |-> t[1].bytes]),
          attachment |-> Some("thumb.webp"),
          title |-> title.title,
          description |-> <<"Title: ", title.votes, " votes, is",
                            IsLocked(title.locked), "locked; Thumbnail: ",
                            t[1].votes, " votes, is", IsLocked(t[1].locked),
                            "locked">>,
          footer |-> "De-Clickbait provided by DeArrow API.",
          reference |-> m]
    ELSE [file |-> None,
          attachment |-> None,
          title |-> title.title,
          description |-> <<"Title: ", title.votes, " votes, is",
                            IsLocked(title.locked), "locked; Thumbnail: ",
                            Reason(thumbnail_mode)>>,
          footer |-> "De-Clickbait provided by DeArrow API.",
          reference |-> m]

\* the suppression test without the remove_embed flag
SuppressCondNoFlag(t) == thumbnail_mode # "Disabled" /\ t # None

\* self.thumbnail_mode != ThumbnailMode::Disabled && thumb_present && self.remove_embed
SuppressCond(t) == thumbnail_mode # "Disabled" /\ t # None /\ remove_embed

\* the test made on the embeds the message has by now
NeedWaitNow(m) == embeds[m] = 0 /\ updates[m] = 0

\* the test inverted: wait when Discord has rendered an embed already
NeedWaitPreviews(m) == embeds[m] # 0

\* msg.embeds.len() == 0
NeedWait(m) == embeds[m] = 0

\* the collector without its filter: any MessageUpdate passes
CollectorFilterAny(m, e) == TRUE

\* Event::MessageUpdate(x) if x.id == msg_id
CollectorFilter(m, e) == e = m

(***************************************************************************)
(* Initial state: the handler's configuration is whatever the command line *)
(* gave; message 1 has been received and its handler is about to run.      *)
(***************************************************************************)
Init ==
    /\ thumbnail_mode \in ThumbnailModes
    /\ arg = Some(to_string(thumbnail_mode))
    /\ parsed = Some(Ok(thumbnail_mode))
    /\ remove_embed \in BOOLEAN
    /\ pc = [m \in Msgs |-> IF m = 1 THEN "received" ELSE "absent"]
    /\ link \in [Msgs -> Links]
    /\ \A m \in Msgs : pc[m] = "absent" => link[m] = TextPlain
    /\ embeds \in [Msgs -> {0, 1}]
    /\ \A m \in Msgs : pc[m] = "absent" => embeds[m] = 0
    /\ id = [m \in Msgs |-> None]
    /\ branding = [m \in Msgs |-> None]
    /\ thumb = [m \in Msgs |-> None]
    /\ message = [m \in Msgs |-> None]
    /\ calls = [m \in Msgs |-> <<>>]
    /\ results = [m \in Msgs |-> <<>>]
    /\ updates = [m \in Msgs |-> 0]
    /\ collector = [m \in Msgs |-> "none"]
    /\ elapsed = [m \in Msgs |-> 0]
    /\ channel = {}
    /\ suppressed = {}

(***************************************************************************)
(* Pieces of the handler shared by several steps.                          *)
(***************************************************************************)
Issue(m, c) == calls' = [calls EXCEPT ![m] = Append(@, c)]
Complete(m, res) == results' = [results EXCEPT ![m] = Append(@, res)]
Goto(m, l) == pc' = [pc EXCEPT ![m] = l]

\* lines 190-234: build the reply and start sending it
SendReply(m, title, t) ==
    /\ thumb' = [thumb EXCEPT ![m] = t]
    /\ message' = [message EXCEPT ![m] = Some(CreateMessage(m, title, t))]
    /\ Issue(m, Call("send_message", None, None))
    /\ Goto(m, "send")

\* lines 256-260: start the edit that suppresses the embeds of message m
SuppressEmbeds(m) ==
    /\ Issue(m, Call("edit", None, None))
    /\ Goto(m, "edit")

(***************************************************************************)
(* Steps of Handler::message for message m.                                *)
(***************************************************************************)
\* lines 112-121: the regex does not capture, the handler returns
MessageNoLink(m) ==
    /\ pc[m] = "received"
    /\ captures(link[m]) = None
    /\ Goto(m, "done")
    /\ UNCHANGED <<config, received, id, branding, thumb, message, calls,
                   results, updates, collector, elapsed, channel, suppressed>>

\* lines 112-133: the id is captured and get_branding starts
MessageLink(m) ==
    /\ pc[m] = "received"
    /\ captures(link[m]) # None
    /\ id' = [id EXCEPT ![m] = captures(link[m])]
    /\ Issue(m, Call("get_branding", captures(link[m]), None))
    /\ Goto(m, "branding")
    /\ UNCHANGED <<config, received, branding, thumb, message, results,
                   updates, collector, elapsed, channel, suppressed>>

\* get_branding fails and is tried again
BrandingErrRetry(m) ==
    /\ pc[m] = "branding"
    /\ Len(calls[m]) < 2
    /\ Complete(m, "err")
    /\ Issue(m, Call("get_branding", id[m], None))
    /\ UNCHANGED <<config, received, pc, id, branding, thumb, message,
                   updates, collector, elapsed, channel, suppressed>>

\* lines 132-137: get_branding fails, the handler returns
BrandingErr(m) ==
    /\ pc[m] = "branding"
    /\ Complete(m, "err")
    /\ Goto(m, "done")
    /\ UNCHANGED <<config, received, id, branding, thumb, message, calls,
                   updates, collector, elapsed, channel, suppressed>>

\* In the steps that complete get_branding, R is the set of responses the
\* API may answer with.

\* lines 139-142: the response has no title, the handler returns
BrandingNoTitle(m, R) ==
    /\ pc[m] = "branding"
    /\ \E r \in R :
          /\ first(r.titles) = None
          /\ branding' = [branding EXCEPT ![m] = Some(r)]
    /\ Complete(m, "ok")
    /\ Goto(m, "done")
    /\ UNCHANGED <<config, received, id, thumb, message, calls, updates,
                   collector, elapsed, channel, suppressed>>

\* lines 144-151: the first title is untrusted, the handler returns
BrandingUntrusted(m, R) ==
    /\ pc[m] = "branding"
    /\ \E r \in R :
          /\ first(r.titles) # None
          /\ TitleUntrusted(first(r.titles)[1])
          /\ branding' = [branding EXCEPT ![m] = Some(r)]
    /\ Complete(m, "ok")
    /\ Goto(m, "done")
    /\ UNCHANGED <<config, received, id, thumb, message, calls, updates,
                   collector, elapsed, channel, suppressed>>

\* lines 158-175: the first thumbnail passes, get_thumbnail starts
BrandingFetchThumb(m, R) ==
    /\ pc[m] = "branding"
    /\ \E r \in R :
          /\ first(r.titles) # None
          /\ ~TitleUntrusted(first(r.titles)[1])
          /\ ThumbFetched(r)
          /\ branding' = [branding EXCEPT ![m] = Some(r)]
          /\ Issue(m, Call("get_thumbnail", id[m],
                           first(r.thumbnails)[1].timestamp))
    /\ Complete(m, "ok")
    /\ Goto(m, "thumb")
    /\ UNCHANGED <<config, received, id, thumb, message, updates, collector,
                   elapsed, channel, suppressed>>

\* lines 158-234: no thumbnail is fetched, the title-only reply is sent
BrandingNoThumb(m, R) ==
    /\ pc[m] = "branding"
    /\ \E r \in R :
          /\ first(r.titles) # None
          /\ ~TitleUntrusted(first(r.titles)[1])
          /\ ~ThumbFetched(r)
          /\ branding' = [branding EXCEPT ![m] = Some(r)]
          /\ SendReply(m, first(r.titles)[1], None)
    /\ Complete(m, "ok")
    /\ UNCHANGED <<config, received, id, updates, collector, elapsed,
                   channel, suppressed>>

\* lines 174-234: get_thumbnail succeeds, the reply carries the image
ThumbnailOk(m) ==
    /\ pc[m] = "thumb"
    /\ LET r == branding[m][1]
           thumbnail == first(r.thumbnails)[1]
       IN  SendReply(m, first(r.titles)[1],
                     Some([bytes |-> "webp", votes |-> thumbnail.votes,
                           locked |-> thumbnail.locked]))
    /\ Complete(m, "ok")
    /\ UNCHANGED <<config, received, id, branding, updates, collector,
                   elapsed, channel, suppressed>>

\* get_thumbnail fails and the handler returns, as it does for get_branding
ThumbnailErrReturn(m) ==
    /\ pc[m] = "thumb"
    /\ Complete(m, "err")
    /\ Goto(m, "done")
    /\ UNCHANGED <<config, received, id, branding, thumb, message, calls,
                   updates, collector, elapsed, channel, suppressed>>

\* get_thumbnail fails and is tried again
ThumbnailErrRetry(m) ==
    /\ pc[m] = "thumb"
    /\ Len(calls[m]) < 3
    /\ Complete(m, "err")
    /\ Issue(m, Call("get_thumbnail", id[m],
                     first(branding[m][1].thumbnails)[1].timestamp))
    /\ UNCHANGED <<config, received, pc, id, branding, thumb, message,
                   updates, collector, elapsed, channel, suppressed>>

\* lines 174-234: get_thumbnail fails, .ok() makes the thumb None
ThumbnailErr(m) ==
    /\ pc[m] = "thumb"
    /\ SendReply(m, first(branding[m][1].titles)[1], None)
    /\ Complete(m, "err")
    /\ UNCHANGED <<config, received, id, branding, updates, collector,
                   elapsed, channel, suppressed>>

\* lines 238-264, entered when send_message has completed
AfterSend(m) ==
    IF SuppressCond(thumb[m])
    THEN IF NeedWait(m)
         THEN /\ collector' = [collector EXCEPT ![m] = "listening"]
              /\ elapsed' = [elapsed EXCEPT ![m] = 0]
              /\ Issue(m, Call("collect", None, None))
              /\ Goto(m, "wait")
         ELSE /\ SuppressEmbeds(m)
              /\ UNCHANGED <<collector, elapsed>>
    ELSE /\ Goto(m, "done")
         /\ UNCHANGED <<calls, collector, elapsed>>

\* line 234: Discord accepts the reply
SendOk(m) ==
    /\ pc[m] = "send"
    /\ Complete(m, "ok")
    /\ channel' = channel \cup {message[m][1]}
    /\ AfterSend(m)
    /\ UNCHANGED <<config, received, id, branding, thumb, message, updates,
                   suppressed>>

\* lines 234-236: send_message fails, the error is logged
SendErr(m) ==
    /\ pc[m] = "send"
    /\ Complete(m, "err")
    /\ AfterSend(m)
    /\ UNCHANGED <<config, received, id, branding, thumb, message, updates,
                   channel, suppressed>>

\* the gateway delivers a MessageUpdate event for message id e
MessageUpdate(e) ==
    /\ pc[e] \notin {"absent", "done"}
    /\ updates[e] < MaxUpdates
    /\ updates' = [updates EXCEPT ![e] = @ + 1]
    /\ collector' = [m \in Msgs |->
                       IF collector[m] = "listening" /\ CollectorFilter(m, e)
                       THEN "ready" ELSE collector[m]]
    /\ UNCHANGED <<config, received, pc, id, branding, thumb, message, calls,
                   results, elapsed, channel, suppressed>>

\* time passes while the handler is inside tokio::time::timeout
Tick(m) ==
    /\ pc[m] = "wait"
    /\ elapsed[m] < TimeoutMs
    /\ elapsed' = [elapsed EXCEPT ![m] = @ + TickMs]
    /\ UNCHANGED <<config, received, pc, id, branding, thumb, message, calls,
                   results, updates, collector, channel, suppressed>>

\* lines 249-260: message_updates.next() yields the event, the edit starts
Notified(m) ==
    /\ pc[m] = "wait"
    /\ collector[m] = "ready"
    /\ Complete(m, "event")
    /\ collector' = [collector EXCEPT ![m] = "dropped"]
    /\ SuppressEmbeds(m)
    /\ UNCHANGED <<config, received, id, branding, thumb, message, updates,
                   elapsed, channel, suppressed>>

\* message_updates.next() awaited without tokio::time::timeout around it
TimeoutNever(m) ==
    /\ FALSE
    /\ UNCHANGED vars

\* lines 249-260: the 5000 ms pass without an event, the edit starts
Timeout(m) ==
    /\ pc[m] = "wait"
    /\ collector[m] = "listening"
    /\ elapsed[m] >= TimeoutMs
    /\ Complete(m, "timeout")
    /\ collector' = [collector EXCEPT ![m] = "dropped"]
    /\ SuppressEmbeds(m)
    /\ UNCHANGED <<config, received, id, branding, thumb, message, updates,
                   elapsed, channel, suppressed>>

\* lines 258-260: the edit succeeds
EditOk(m) ==
    /\ pc[m] = "edit"
    /\ Complete(m, "ok")
    /\ suppressed' = suppressed \cup {m}
    /\ Goto(m, "done")
    /\ UNCHANGED <<config, received, id, branding, thumb, message, calls,
                   updates, collector, elapsed, channel>>

\* lines 258-263: the edit fails, the error is logged
EditErr(m) ==
    /\ pc[m] = "edit"
    /\ Complete(m, "err")
    /\ Goto(m, "done")
    /\ UNCHANGED <<config, received, id, branding, thumb, message, calls,
                   updates, collector, elapsed, channel, suppressed>>

\* one step of the handler of message m
Handle(m, R) ==
    \/ MessageNoLink(m)
    \/ MessageLink(m)
    \/ BrandingErr(m)
    \/ BrandingNoTitle(m, R)
    \/ BrandingUntrusted(m, R)
    \/ BrandingFetchThumb(m, R)
    \/ BrandingNoThumb(m, R)
    \/ ThumbnailOk(m)
    \/ ThumbnailErr(m)
    \/ SendOk(m)
    \/ SendErr(m)
    \/ Tick(m)
    \/ Notified(m)
    \/ Timeout(m)
    \/ EditOk(m)
    \/ EditErr(m)

Next ==
    \/ \E m \in Msgs : Handle(m, BrandingResponse)
    \/ \E e \in Msgs : MessageUpdate(e)

Spec == Init /\ [][Next]_vars

(***************************************************************************)
(* The specification of the progress properties, and of the properties    *)
(* that do not depend on the thumbnails after the first.  The API answers  *)
(* with at most one thumbnail.  The request get_thumbnail has sent         *)
(* resolves, and the tokio runtime runs the timer of the timeout and polls *)
(* the collector the handler waits on; the gateway is free never to        *)
(* deliver a MessageUpdate.                                                *)
(***************************************************************************)
OneThumbnail == {r \in BrandingResponse : Len(r.thumbnails) <= 1}

FairNext ==
    \/ \E m \in Msgs : Handle(m, OneThumbnail)
    \/ \E e \in Msgs : MessageUpdate(e)

Fairness ==
    \A m \in Msgs :
        /\ WF_vars(ThumbnailOk(m) \/ ThumbnailErr(m))
        /\ WF_vars(Tick(m) \/ Notified(m) \/ Timeout(m))

FairSpec == Init /\ [][FairNext]_vars /\ Fairness

(***************************************************************************)
(* The specification of the link extraction: message 1 arrives with any of *)
(* the texts of Texts, and the handler runs up to its first suspension     *)
(* point, that is, it applies the regex to the text.                       *)
(***************************************************************************)
ExtractInit ==
    /\ thumbnail_mode \in ThumbnailModes
    /\ arg = Some(to_string(thumbnail_mode))
    /\ parsed = Some(Ok(thumbnail_mode))
    /\ remove_embed \in BOOLEAN
    /\ pc = [m \in Msgs |-> IF m = 1 THEN "received" ELSE "absent"]
    /\ \E t \in Texts : link = [m \in Msgs |-> IF m = 1 THEN t ELSE TextPlain]
    /\ \E n \in {0, 1} : embeds = [m \in Msgs |-> IF m = 1 THEN n ELSE 0]
    /\ id = [m \in Msgs |-> None]
    /\ branding = [m \in Msgs |-> None]
    /\ thumb = [m \in Msgs |-> None]
    /\ message = [m \in Msgs |-> None]
    /\ calls = [m \in Msgs |-> <<>>]
    /\ results = [m \in Msgs |-> <<>>]
    /\ updates = [m \in Msgs |-> 0]
    /\ collector = [m \in Msgs |-> "none"]
    /\ elapsed = [m \in Msgs |-> 0]
    /\ channel = {}
    /\ suppressed = {}

ExtractNext == \E m \in Msgs : MessageNoLink(m) \/ MessageLink(m)

ExtractSpec == ExtractInit /\ [][ExtractNext]_vars

(***************************************************************************)
(* The specification of concurrent handlers: serenity spawns one task per  *)
(* message, so the steps of the handlers of the messages of InFlight       *)
(* interleave at their suspension points.  These messages had no embed     *)
(* when they were received, and the API answers with one of four           *)
(* responses: no title, an untrusted title, and a locked title with and    *)
(* without a locked thumbnail.                                             *)
(***************************************************************************)
InFlight == {1, 2} \cap Msgs

ConcResponses ==
    {r \in [titles : {<<>>} \cup {<<t>> : t \in {u \in BrandingTitle(1) :
                                                  LaterTitle(u)}},
            thumbnails : {<<>>} \cup {<<t>> : t \in {u \in BrandingThumbnail :
                                                      u.locked /\ LaterThumbnail(u)}}] :
        r.thumbnails # <<>> => (r.titles # <<>> /\ r.titles[1].locked)}

ConcInit ==
    /\ thumbnail_mode \in ThumbnailModes
    /\ arg = Some(to_string(thumbnail_mode))
    /\ parsed = Some(Ok(thumbnail_mode))
    /\ remove_embed \in BOOLEAN
    /\ pc = [m \in Msgs |-> IF m \in InFlight THEN "received" ELSE "absent"]
    /\ link \in [Msgs -> {TextShort, TextPlain}]
    /\ \A m \in Msgs : pc[m] = "absent" => link[m] = TextPlain
    /\ embeds = [m \in Msgs |-> 0]
    /\ id = [m \in Msgs |-> None]
    /\ branding = [m \in Msgs |-> None]
    /\ thumb = [m \in Msgs |-> None]
    /\ message = [m \in Msgs |-> None]
    /\ calls = [m \in Msgs |-> <<>>]
    /\ results = [m \in Msgs |-> <<>>]
    /\ updates = [m \in Msgs |-> 0]
    /\ collector = [m \in Msgs |-> "none"]
    /\ elapsed = [m \in Msgs |-> 0]
    /\ channel = {}
    /\ suppressed = {}

ConcNext ==
    \/ \E m \in Msgs : Handle(m, ConcResponses)
    \/ \E e \in Msgs : MessageUpdate(e)

ConcSpec == ConcInit /\ [][ConcNext]_vars

(***************************************************************************)
(* The specification of the start of main: Args::parse() reads the text    *)
(* given for the thumbnail mode, or formats the default when none is       *)
(* given, and parses it with from_str.  No message arrives before the      *)
(* client has started.                                                     *)
(***************************************************************************)
ParseInit ==
    /\ arg \in {None} \cup {Some(s) : s \in ArgStrings}
    /\ parsed = None
    /\ thumbnail_mode = "OnlyLocked"
    /\ remove_embed \in BOOLEAN
    /\ pc = [m \in Msgs |-> "absent"]
    /\ link = [m \in Msgs |-> TextPlain]
    /\ embeds = [m \in Msgs |-> 0]
    /\ id = [m \in Msgs |-> None]
    /\ branding = [m \in Msgs |-> None]
    /\ thumb = [m \in Msgs |-> None]
    /\ message = [m \in Msgs |-> None]
    /\ calls = [m \in Msgs |-> <<>>]
    /\ results = [m \in Msgs |-> <<>>]
    /\ updates = [m \in Msgs |-> 0]
    /\ collector = [m \in Msgs |-> "none"]
    /\ elapsed = [m \in Msgs |-> 0]
    /\ channel = {}
    /\ suppressed = {}

\* the text clap hands to from_str: the argument, or the default formatted
ArgText == IF arg = None THEN to_string("OnlyLocked") ELSE arg[1]

\* Args::parse() succeeds: the mode goes into the Handler
ArgsParseOk ==
    /\ parsed = None
    /\ from_str(ArgText)[1] = "Ok"
    /\ parsed' = Some(from_str(ArgText))
    /\ thumbnail_mode' = from_str(ArgText)[2]
    /\ UNCHANGED <<arg, remove_embed, received, pc, id, branding, thumb,
                   message, calls, results, updates, collector, elapsed,
                   channel, suppressed>>

\* Args::parse() fails: clap reports the error and the process exits
ArgsParseErr ==
    /\ parsed = None
    /\ from_str(ArgText)[1] = "Err"
    /\ parsed' = Some(from_str(ArgText))
    /\ UNCHANGED <<arg, thumbnail_mode, remove_embed, received, pc, id,
                   branding, thumb, message, calls, results, updates,
                   collector, elapsed, channel, suppressed>>

ParseNext == ArgsParseOk \/ ArgsParseErr

ParseSpec == ParseInit /\ [][ParseNext]_vars

TypeOK ==
    /\ thumbnail_mode \in ThumbnailModes
    /\ remove_embed \in BOOLEAN
    /\ \A m \in Msgs :
          /\ pc[m] \in {"absent", "received", "branding", "thumb", "send",
                        "wait", "edit", "done"}
          /\ Len(results[m]) <= Len(calls[m])
          /\ updates[m] \in 0..MaxUpdates

(***************************************************************************)
(* Vocabulary of the properties.                                           *)
(***************************************************************************)
\* the branding response of message m has arrived and was deserialized
Fetched(m) == branding[m] # None

Titles(m) == branding[m][1].titles
Thumbnails(m) == branding[m][1].thumbnails

\* message m got a reply built, and the reply has the image attached
Replied(m) == message[m] # None
TitleOnly(m) == message[m][1].file = None /\ message[m][1].attachment = None
Attached(m) == message[m][1].file # None

\* the i-th operation of message m was op and has ended with res
Ended(m, op, res) ==
    \E i \in 1..Len(results[m]) : calls[m][i].op = op /\ results[m][i] = res

(***************************************************************************)
(* C1: when the first title of the response is unlocked with votes below   *)
(* 0, the handler has returned having issued nothing but the metadata      *)
(* fetch: no reply is built or sent, no thumbnail is fetched, nothing is   *)
(* edited, whatever the mode, the thumbnails and remove_embed are.         *)
(***************************************************************************)
C1_UntrustedTitleNoReply ==
    \A m \in Msgs :
        (/\ Fetched(m)
         /\ Titles(m) # <<>>
         /\ ~Titles(m)[1].locked
         /\ Titles(m)[1].votes < 0)
        => /\ pc[m] = "done"
           /\ Ops(m) = <<"get_branding">>
           /\ ~Replied(m)
           /\ \A r \in channel : r.reference # m
           /\ m \notin suppressed

C1_Witness ==
    \E m \in Msgs :
        /\ Fetched(m)
        /\ Titles(m) # <<>>
        /\ ~Titles(m)[1].locked
        /\ Titles(m)[1].votes < 0
        /\ thumbnail_mode = "Enabled"
        /\ remove_embed
        /\ Thumbnails(m) # <<>>
        /\ Thumbnails(m)[1].locked
        /\ pc[m] = "done"

(***************************************************************************)
(* C2: once the response has arrived with a locked first title, the        *)
(* handler goes on to send exactly one reply carrying that title, whatever *)
(* the sign of its votes; an unlocked first title is accepted exactly when *)
(* its votes are at least 0.                                               *)
(***************************************************************************)
C2_Accepted(m) ==
    LET t == Titles(m)[1]
    IN  IF t.locked \/ t.votes >= 0
        THEN /\ Count(m, "send_message") <= 1
             /\ pc[m] # "thumb" =>
                   /\ Count(m, "send_message") = 1
                   /\ Replied(m)
                   /\ message[m][1].title = t.title
                   /\ message[m][1].reference = m
        ELSE /\ Count(m, "send_message") = 0
             /\ ~Replied(m)

C2_LockedTitleReplies ==
    /\ [](\A m \in Msgs : (Fetched(m) /\ Titles(m) # <<>>) => C2_Accepted(m))
    /\ \A m \in Msgs :
          (Fetched(m) /\ Titles(m) # <<>> /\ Titles(m)[1].locked)
              ~> (Count(m, "send_message") = 1)

C2_Witness ==
    \E m \in Msgs :
        /\ Fetched(m)
        /\ Titles(m) # <<>>
        /\ Titles(m)[1].locked
        /\ Titles(m)[1].votes < 0
        /\ Count(m, "send_message") = 1
        /\ message[m][1].title = Titles(m)[1].title

(***************************************************************************)
(* C3: under mode Disabled no get_thumbnail call is ever issued, and a     *)
(* reply, if one is built, has no image attached.                          *)
(***************************************************************************)
C3_DisabledNoThumbnailFetch ==
    thumbnail_mode = "Disabled" =>
        \A m \in Msgs :
            /\ Count(m, "get_thumbnail") = 0
            /\ Replied(m) => TitleOnly(m)

C3_Witness ==
    \E m \in Msgs :
        /\ thumbnail_mode = "Disabled"
        /\ Replied(m)
        /\ Thumbnails(m) # <<>>
        /\ Thumbnails(m)[1].locked
        /\ Thumbnails(m)[1].votes > 0
        /\ pc[m] = "done"

(***************************************************************************)
(* C4: under mode OnlyLocked, with an accepted title and a first thumbnail *)
(* that is unlocked with votes at least 0, no get_thumbnail call is issued *)
(* and the reply that is sent is title-only and gives the reason           *)
(* "disabled by dev (lock-only)".                                          *)
(***************************************************************************)
C4_OnlyLockedUnlockedThumb ==
    \A m \in Msgs :
        (/\ thumbnail_mode = "OnlyLocked"
         /\ Fetched(m)
         /\ Titles(m) # <<>>
         /\ (Titles(m)[1].locked \/ Titles(m)[1].votes >= 0)
         /\ Thumbnails(m) # <<>>
         /\ ~Thumbnails(m)[1].locked
         /\ Thumbnails(m)[1].votes >= 0)
        => /\ Count(m, "get_thumbnail") = 0
           /\ Count(m, "send_message") = 1
           /\ Replied(m)
           /\ TitleOnly(m)
           /\ Len(message[m][1].description) = 6
           /\ message[m][1].description[6] = "disabled by dev (lock-only)"

C4_Witness ==
    \E m \in Msgs :
        /\ thumbnail_mode = "OnlyLocked"
        /\ Fetched(m)
        /\ Thumbnails(m) # <<>>
        /\ ~Thumbnails(m)[1].locked
        /\ Thumbnails(m)[1].votes > 0
        /\ Ended(m, "send_message", "ok")
        /\ message[m][1] \in channel

(***************************************************************************)
(* C5: when get_thumbnail fails, the handler still sends a reply, the      *)
(* reply is title-only, and neither the wait nor the edit follows.         *)
(***************************************************************************)
C5_ThumbnailFailureTitleOnly ==
    \A m \in Msgs :
        Ended(m, "get_thumbnail", "err")
        => /\ Count(m, "send_message") = 1
           /\ Replied(m)
           /\ TitleOnly(m)
           /\ Count(m, "collect") = 0
           /\ Count(m, "edit") = 0

C5_Witness ==
    \E m \in Msgs :
        /\ Ended(m, "get_thumbnail", "err")
        /\ Ended(m, "send_message", "ok")
        /\ remove_embed
        /\ pc[m] = "done"

(***************************************************************************)
(* C6: a failed send_message is the last operation of the message: no      *)
(* wait and no edit follow it.                                             *)
(***************************************************************************)
C6_SendFailureTerminal ==
    \A m \in Msgs :
        \A i \in 1..Len(results[m]) :
            (calls[m][i].op = "send_message" /\ results[m][i] = "err")
            => /\ Len(calls[m]) = i
               /\ pc[m] = "done"

(***************************************************************************)
(* C7: the wait and the edit are only ever issued when the mode is not     *)
(* Disabled, the reply has the image attached and remove_embed is set.     *)
(***************************************************************************)
C7_SuppressOnlyIf ==
    \A m \in Msgs :
        (Count(m, "edit") > 0 \/ Count(m, "collect") > 0 \/ pc[m] = "wait")
        => /\ thumbnail_mode # "Disabled"
           /\ Replied(m)
           /\ Attached(m)
           /\ remove_embed

C7_Witness ==
    \E m \in Msgs :
        /\ Count(m, "edit") = 1
        /\ Count(m, "collect") = 0
        /\ Attached(m)
        /\ pc[m] = "done"

(***************************************************************************)
(* C8: once send_message has completed with the mode not Disabled, the     *)
(* image attached and remove_embed set, the edit is eventually issued,     *)
(* whether or not a MessageUpdate event for the message ever arrives: the  *)
(* wait ends with the event or with the timeout.                           *)
(***************************************************************************)
C8_EditEventuallyIssued ==
    \A m \in Msgs :
        (/\ thumbnail_mode # "Disabled"
         /\ remove_embed
         /\ Replied(m)
         /\ Attached(m)
         /\ \E res \in {"ok", "err"} : Ended(m, "send_message", res))
        ~> (Count(m, "edit") = 1)

C8_Witness ==
    \E m \in Msgs :
        /\ Ended(m, "collect", "timeout")
        /\ updates[m] = 0
        /\ Count(m, "edit") = 1

(***************************************************************************)
(* C9: when get_branding fails, the handler has returned: the one          *)
(* get_branding call is all it ever issued, and no reply was built.        *)
(***************************************************************************)
C9_BrandingFailureNoOp ==
    \A m \in Msgs :
        (Len(results[m]) >= 1 /\ results[m][1] = "err")
        => /\ pc[m] = "done"
           /\ Ops(m) = <<"get_branding">>
           /\ ~Fetched(m)
           /\ ~Replied(m)
           /\ \A r \in channel : r.reference # m

C9_Witness ==
    \E m \in Msgs :
        /\ results[m] = <<"err">>
        /\ Ops(m) = <<"get_branding">>
        /\ pc[m] = "done"

(***************************************************************************)
(* C10: a reply is only ever built from a response that has a title, and   *)
(* its headline, votes and lock state are those of the first title; with   *)
(* no title in the response the handler has returned without any further   *)
(* operation, thumbnails or not.                                           *)
(***************************************************************************)
C10_ReplyFromFirstTitle ==
    \A m \in Msgs :
        /\ Replied(m) =>
              /\ Fetched(m)
              /\ Titles(m) # <<>>
              /\ message[m][1].title = Titles(m)[1].title
              /\ message[m][1].description[2] = Titles(m)[1].votes
              /\ message[m][1].description[4]
                     = (IF Titles(m)[1].locked THEN " " ELSE " not ")
        /\ (Fetched(m) /\ Titles(m) = <<>>) =>
              /\ pc[m] = "done"
              /\ Ops(m) = <<"get_branding">>
              /\ ~Replied(m)

C10_Witness ==
    \E m \in Msgs :
        /\ Fetched(m)
        /\ Titles(m) = <<>>
        /\ Len(Thumbnails(m)) = MaxCands
        /\ Thumbnails(m)[1].locked
        /\ thumbnail_mode = "Enabled"
        /\ pc[m] = "done"

(***************************************************************************)
(* C11: under Enabled and under OnlyLocked, with an accepted first title   *)
(* and a first thumbnail that is unlocked with votes below 0, no           *)
(* get_thumbnail call is issued and the reply is still sent, title-only.   *)
(***************************************************************************)
C11_UntrustedThumbDropsThumbOnly ==
    \A m \in Msgs :
        (/\ thumbnail_mode \in {"Enabled", "OnlyLocked"}
         /\ Fetched(m)
         /\ Titles(m) # <<>>
         /\ (Titles(m)[1].locked \/ Titles(m)[1].votes >= 0)
         /\ Thumbnails(m) # <<>>
         /\ ~Thumbnails(m)[1].locked
         /\ Thumbnails(m)[1].votes < 0)
        => /\ Count(m, "get_thumbnail") = 0
           /\ Count(m, "send_message") = 1
           /\ Replied(m)
           /\ TitleOnly(m)
           /\ thumb[m] = None
           /\ message[m][1].title = Titles(m)[1].title

C11_Witness ==
    \E m \in Msgs :
        /\ thumbnail_mode = "Enabled"
        /\ Fetched(m)
        /\ Titles(m) # <<>>
        /\ Titles(m)[1].locked
        /\ Thumbnails(m) # <<>>
        /\ ~Thumbnails(m)[1].locked
        /\ Thumbnails(m)[1].votes < 0
        /\ Ops(m) = <<"get_branding", "send_message">>
        /\ Ended(m, "send_message", "ok")

(***************************************************************************)
(* C12: the sixth part of the description of a title-only reply is         *)
(* "disabled by dev" under Disabled; "not found" under Enabled, when the   *)
(* response has no thumbnail, when the first thumbnail is unlocked with    *)
(* votes below 0 and when get_thumbnail failed; and "disabled by dev       *)
(* (lock-only)" under OnlyLocked when the first thumbnail is unlocked.     *)
(***************************************************************************)
C12_NoUsable(m) ==
    \/ Thumbnails(m) = <<>>
    \/ ~Thumbnails(m)[1].locked /\ Thumbnails(m)[1].votes < 0
    \/ Ended(m, "get_thumbnail", "err")

C12_ReasonString ==
    \A m \in Msgs :
        (Replied(m) /\ TitleOnly(m)) =>
            LET d == message[m][1].description
            IN  /\ Len(d) = 6
                /\ d[5] = "locked; Thumbnail: "
                /\ thumbnail_mode = "Disabled" => d[6] = "disabled by dev"
                /\ (thumbnail_mode = "Enabled" /\ C12_NoUsable(m))
                       => d[6] = "not found"
                /\ (/\ thumbnail_mode = "OnlyLocked"
                    /\ Thumbnails(m) # <<>>
                    /\ ~Thumbnails(m)[1].locked)
                       => d[6] = "disabled by dev (lock-only)"

C12_Witness ==
    \E m \in Msgs :
        /\ thumbnail_mode = "Enabled"
        /\ Replied(m)
        /\ TitleOnly(m)
        /\ Ended(m, "get_thumbnail", "err")
        /\ message[m][1].description[6] = "not found"
        /\ Ended(m, "send_message", "ok")

(***************************************************************************)
(* C13: the regex has run on the text of message m.  A link shape the      *)
(* claim lists starts at position i of text s and has its id at position   *)
(* j: the host youtube.com/ or youtube-nocookie.com/ followed by v/, e/ or *)
(* embed/ and the id, or by characters other than white space that end in  *)
(* ?v= or &v= and the id; or youtu.be/ and the id.  When the text has such *)
(* a shape, the id of the handler is the 11 characters of the first one;   *)
(* when it has none, the handler has returned without any call.            *)
(***************************************************************************)
C13_Listed(s, i, j) ==
    /\ IdAt(s, j)
    /\ \/ /\ HostEnd(s, i) # 0
          /\ LET p == HostEnd(s, i)
             IN  \/ IsAt(s, p, <<"v","/">>) /\ j = p + 2
                 \/ IsAt(s, p, <<"e","/">>) /\ j = p + 2
                 \/ IsAt(s, p, <<"e","m","b","e","d","/">>) /\ j = p + 6
                 \/ /\ j >= p + 3
                    /\ s[j - 3] \in {"?", "&"}
                    /\ IsAt(s, j - 2, <<"v","=">>)
                    /\ \A k \in p..(j - 4) : s[k] \notin Space
       \/ /\ IsAt(s, i, <<"y","o","u","t","u",".","b","e","/">>)
          /\ j = i + 9

\* the positions <<i, j>> of the listed shapes of s, and the first of them
C13_Shapes(s) ==
    {ij \in (1..Len(s)) \X (1..Len(s)) : C13_Listed(s, ij[1], ij[2])}

C13_First(s) ==
    CHOOSE ij \in C13_Shapes(s) :
        \A kl \in C13_Shapes(s) :
            ij[1] < kl[1] \/ (ij[1] = kl[1] /\ ij[2] <= kl[2])

C13_Extracted(m) == pc[m] \notin {"absent", "received"}

C13_FirstListedShape ==
    \A m \in Msgs :
        C13_Extracted(m) =>
            IF C13_Shapes(link[m]) # {}
            THEN LET j == C13_First(link[m])[2]
                 IN  /\ id[m] = Some(SubSeq(link[m], j, j + IdLen - 1))
                     /\ Ops(m) = <<"get_branding">>
                     /\ calls[m][1].vid = id[m]
            ELSE /\ id[m] = None
                 /\ pc[m] = "done"
                 /\ calls[m] = <<>>

(***************************************************************************)
(* C14: for a message that had no embed when it was received, the edit is  *)
(* only issued after the collector has yielded a MessageUpdate event of    *)
(* that message's id or after the timer of the wait has reached 5000 ms,   *)
(* and while the handler waits no edit has been issued.  For a message     *)
(* that had an embed already, the handler never subscribes or waits: the   *)
(* edit is issued in the step that completes send_message.                 *)
(***************************************************************************)
C14_EditAfterWait ==
    \A m \in Msgs :
        /\ pc[m] = "wait" => (embeds[m] = 0 /\ Count(m, "edit") = 0)
        /\ Count(m, "edit") > 0 =>
              IF embeds[m] = 0
              THEN /\ calls[m][Len(calls[m]) - 1].op = "collect"
                   /\ \/ /\ Ended(m, "collect", "event")
                         /\ updates[m] >= 1
                      \/ /\ Ended(m, "collect", "timeout")
                         /\ elapsed[m] >= TimeoutMs
              ELSE /\ Count(m, "collect") = 0
                   /\ elapsed[m] = 0
                   /\ calls[m][Len(calls[m]) - 1].op = "send_message"

C14_Witness ==
    \E m \in Msgs :
        /\ embeds[m] = 0
        /\ Ended(m, "collect", "event")
        /\ elapsed[m] < TimeoutMs
        /\ Count(m, "edit") = 1
        /\ m \in suppressed

(***************************************************************************)
(* C15: a reply with the image attached comes from a response whose first  *)
(* thumbnail is locked or has votes of at least 0, under a mode other than *)
(* Disabled, after get_thumbnail has succeeded; under OnlyLocked that      *)
(* thumbnail is locked; and the votes and the lock state the description   *)
(* shows for the thumbnail are those of the first thumbnail.               *)
(***************************************************************************)
C15_AttachedFromFirstThumb ==
    \A m \in Msgs :
        (Replied(m) /\ Attached(m)) =>
            /\ thumbnail_mode # "Disabled"
            /\ Fetched(m)
            /\ Thumbnails(m) # <<>>
            /\ Thumbnails(m)[1].locked \/ Thumbnails(m)[1].votes >= 0
            /\ thumbnail_mode = "OnlyLocked" => Thumbnails(m)[1].locked
            /\ Ended(m, "get_thumbnail", "ok")
            /\ Count(m, "get_thumbnail") = 1
            /\ calls[m][2].time = Thumbnails(m)[1].timestamp
            /\ calls[m][2].vid = id[m]
            /\ Len(message[m][1].description) = 9
            /\ message[m][1].description[6] = Thumbnails(m)[1].votes
            /\ message[m][1].description[8]
                   = (IF Thumbnails(m)[1].locked THEN " " ELSE " not ")
            /\ message[m][1].attachment = Some("thumb.webp")

C15_Witness ==
    \E m \in Msgs :
        /\ Replied(m)
        /\ Attached(m)
        /\ thumbnail_mode = "OnlyLocked"
        /\ Len(Thumbnails(m)) = MaxCands
        /\ Thumbnails(m)[1].locked
        /\ Thumbnails(m)[1].votes < 0
        /\ ~Thumbnails(m)[MaxCands].locked
        /\ Ended(m, "send_message", "ok")

(***************************************************************************)
(* C16: the operations a handler has issued are, in this order, one        *)
(* get_branding, at most one get_thumbnail, at most one send_message and   *)
(* at most one edit (with the subscription of the wait between the last    *)
(* two); none occurs twice, and an edit has a send_message before it.      *)
(***************************************************************************)
C16_Rank(op) ==
    CASE op = "get_branding" -> 1
      [] op = "get_thumbnail" -> 2
      [] op = "send_message" -> 3
      [] op = "collect" -> 4
      [] op = "edit" -> 5

C16_OnceInOrder ==
    \A m \in Msgs :
        /\ \A i \in 1..(Len(calls[m]) - 1) :
              C16_Rank(calls[m][i].op) < C16_Rank(calls[m][i + 1].op)
        /\ calls[m] # <<>> => calls[m][1].op = "get_branding"
        /\ Count(m, "edit") > 0 => Count(m, "send_message") = 1
        /\ Count(m, "send_message") > 0 => Len(results[m]) >= 1
        /\ \A i \in 1..Len(results[m]) :
              (results[m][i] = "err" /\ i < Len(calls[m]))
                  => calls[m][i + 1].op # calls[m][i].op

C16_Witness ==
    \E m \in Msgs :
        /\ Ops(m) = <<"get_branding", "get_thumbnail", "send_message",
                      "collect", "edit">>
        /\ results[m] = <<"ok", "ok", "ok", "timeout", "err">>
        /\ pc[m] = "done"

(***************************************************************************)
(* C17: while the handlers of several messages interleave, no step changes *)
(* thumbnail_mode or remove_embed; a step changes the handler state of at  *)
(* most one message, and the collector of a message changes only in a step *)
(* of its own handler or on a MessageUpdate of its own id; a wait that     *)
(* ended with an event was ended by an update of the message's own id; and *)
(* two handlers that have returned after the same text and the same        *)
(* results of their operations have issued the same operations and built   *)
(* the same reply, whatever the other handler did meanwhile.               *)
(***************************************************************************)
C17_Local(m) ==
    <<pc[m], id[m], branding[m], thumb[m], message[m], calls[m], results[m],
      elapsed[m]>>

C17_Step ==
    /\ thumbnail_mode' = thumbnail_mode
    /\ remove_embed' = remove_embed
    /\ link' = link
    /\ \A m \in Msgs : \A n \in Msgs \ {m} :
          C17_Local(m)' = C17_Local(m) \/ C17_Local(n)' = C17_Local(n)
    /\ \A m \in Msgs :
          collector'[m] # collector[m] =>
              C17_Local(m)' # C17_Local(m) \/ updates'[m] # updates[m]
    /\ \A m \in Msgs :
          m \in suppressed' \ suppressed => C17_Local(m)' # C17_Local(m)

\* the reply of message m without the reference to the message it answers
C17_Reply(m) ==
    IF message[m] = None THEN None
    ELSE Some([f \in {"file", "attachment", "title", "description", "footer"}
                  |-> message[m][1][f]])

C17_SameOutcome(m, n) ==
    /\ Ops(m) = Ops(n)
    /\ id[m] = id[n]
    /\ thumb[m] = thumb[n]
    /\ C17_Reply(m) = C17_Reply(n)
    /\ (m \in suppressed) = (n \in suppressed)

C17_State ==
    /\ \A m \in Msgs : Ended(m, "collect", "event") => updates[m] >= 1
    /\ \A m \in Msgs : \A r \in channel :
          r.reference = m => (message[m] = Some(r) /\ Ended(m, "send_message", "ok"))
    /\ \A m \in Msgs : \A n \in Msgs :
          (/\ pc[m] = "done"
           /\ pc[n] = "done"
           /\ link[m] = link[n]
           /\ embeds[m] = embeds[n]
           /\ branding[m] = branding[n]
           /\ results[m] = results[n])
          => C17_SameOutcome(m, n)

C17_Independent == [][C17_Step]_vars /\ []C17_State

C17_Witness ==
    \E m \in Msgs : \E n \in Msgs \ {m} :
        /\ pc[m] = "wait"
        /\ collector[m] = "listening"
        /\ updates[m] = 0
        /\ updates[n] >= 1
        /\ pc[n] = "thumb"
        /\ elapsed[m] >= TimeoutMs

(***************************************************************************)
(* C18: the reason a title-only reply gives depends on the mode alone.     *)
(* Under OnlyLocked it is "disabled by dev (lock-only)" also when the      *)
(* response has no thumbnail, when the first thumbnail is unlocked with    *)
(* votes below 0 and when get_thumbnail failed for a locked first          *)
(* thumbnail; under Enabled it is "not found" in each of these cases.      *)
(***************************************************************************)
C18_Causes(m) ==
    {c \in {"empty", "untrusted", "failed"} :
        \/ c = "empty" /\ Thumbnails(m) = <<>>
        \/ /\ c = "untrusted"
           /\ Thumbnails(m) # <<>>
           /\ ~Thumbnails(m)[1].locked
           /\ Thumbnails(m)[1].votes < 0
        \/ /\ c = "failed"
           /\ Thumbnails(m) # <<>>
           /\ Thumbnails(m)[1].locked
           /\ Ended(m, "get_thumbnail", "err")}

C18_ReasonByPolicyAlone ==
    \A m \in Msgs :
        (Replied(m) /\ TitleOnly(m)) =>
            \A c \in C18_Causes(m) :
                message[m][1].description[6] =
                    CASE thumbnail_mode = "OnlyLocked"
                             -> "disabled by dev (lock-only)"
                      [] thumbnail_mode = "Enabled" -> "not found"
                      [] thumbnail_mode = "Disabled" -> "disabled by dev"

C18_Witness ==
    \E m \in Msgs :
        /\ thumbnail_mode = "OnlyLocked"
        /\ Replied(m)
        /\ TitleOnly(m)
        /\ "failed" \in C18_Causes(m)
        /\ message[m][1].description[6] = "disabled by dev (lock-only)"

(***************************************************************************)
(* C19: the collector of a message comes to exist in the step that         *)
(* completes send_message, and that step decides to wait on the embeds the *)
(* message had when it was received, whatever updates have been delivered  *)
(* since.  A MessageUpdate delivered while the collector does not exist    *)
(* leaves it non-existent; only one delivered while it listens makes it    *)
(* ready.  A wait that ended with the timeout lasted 5000 ms and is        *)
(* followed by the edit.                                                   *)
(***************************************************************************)
C19_Step(m) ==
    /\ (collector[m] = "none" /\ collector'[m] # "none") =>
          /\ collector'[m] = "listening"
          /\ pc[m] = "send"
          /\ Len(results'[m]) = Len(results[m]) + 1
          /\ calls[m][Len(results'[m])].op = "send_message"
    /\ (/\ pc[m] = "send"
        /\ pc'[m] # "send"
        /\ thumbnail_mode # "Disabled"
        /\ remove_embed
        /\ Attached(m)
        /\ embeds[m] = 0) =>
          /\ pc'[m] = "wait"
          /\ collector'[m] = "listening"
          /\ elapsed'[m] = 0
    /\ (updates'[m] # updates[m] /\ collector[m] = "none") =>
          collector'[m] = "none"
    /\ (collector[m] # "ready" /\ collector'[m] = "ready") =>
          /\ collector[m] = "listening"
          /\ updates'[m] = updates[m] + 1
    /\ embeds'[m] = embeds[m]

C19_State(m) ==
    /\ collector[m] # "none" =>
          \E res \in {"ok", "err"} : Ended(m, "send_message", res)
    /\ Ended(m, "collect", "timeout") =>
          /\ elapsed[m] >= TimeoutMs
          /\ Count(m, "edit") = 1
    /\ (pc[m] = "wait" /\ collector[m] = "listening" /\ elapsed[m] < TimeoutMs)
          => Count(m, "edit") = 0

C19_LateSubscription ==
    /\ [][\A m \in Msgs : C19_Step(m)]_vars
    /\ [](\A m \in Msgs : C19_State(m))

C19_Witness ==
    \E m \in Msgs :
        /\ updates[m] >= 1
        /\ embeds[m] = 0
        /\ pc[m] = "wait"
        /\ collector[m] = "listening"
        /\ elapsed[m] >= TimeoutMs

(***************************************************************************)
(* C20: once Args::parse() has run on a text, the result is Ok(mode)       *)
(* exactly when the text spells the name of the mode in upper or lower     *)
(* case letters, and an error when it spells none of the three names; in   *)
(* particular the text that formatting a mode gives parses to that mode.   *)
(***************************************************************************)
C20_Letters ==
    {<<AsciiLower[i], AsciiUpper[i]>> : i \in 1..Len(AsciiLower)}

\* the texts s and t are equal up to the case of their letters
C20_SameIgnoringCase(s, t) ==
    /\ Len(s) = Len(t)
    /\ \A k \in 1..Len(s) :
          \/ s[k] = t[k]
          \/ <<s[k], t[k]>> \in C20_Letters
          \/ <<t[k], s[k]>> \in C20_Letters

C20_Name(mode) ==
    CASE mode = "Disabled" -> <<"d","i","s","a","b","l","e","d">>
      [] mode = "Enabled" -> <<"e","n","a","b","l","e","d">>
      [] mode = "OnlyLocked" -> <<"o","n","l","y","l","o","c","k","e","d">>

C20_ParseFormatRoundTrip ==
    parsed # None =>
        /\ \A mode \in ThumbnailModes :
              /\ (parsed[1] = Ok(mode))
                     = C20_SameIgnoringCase(ArgText, C20_Name(mode))
              /\ ArgText = to_string(mode) => parsed[1] = Ok(mode)
              /\ parsed[1] = Ok(mode) => thumbnail_mode = mode
        /\ (\A mode \in ThumbnailModes :
               ~C20_SameIgnoringCase(ArgText, C20_Name(mode)))
              => parsed[1][1] = "Err"
        /\ \A mode \in ThumbnailModes : from_str(to_string(mode)) = Ok(mode)

C20_Witness ==
    /\ arg = None
    /\ parsed = Some(Ok("OnlyLocked"))
    /\ ArgText = <<"O","n","l","y","L","o","c","k","e","d">>

====
